---- MODULE Spec2Model ----
(***************************************************************************)
(* Model of the Chanakya orchestrator (src/Server/orchestrator).           *)
(*                                                                         *)
(* One request at a time runs through the LangGraph workflow built by      *)
(* ChanakyaOrchestrator._build_graph.  Every graph node is one action; the *)
(* conditional edge that follows a node is evaluated in the same step.     *)
(* The generative model, the tools and the SQLite store are external: each *)
(* call to them returns or raises, chosen nondeterministically.            *)
(*                                                                         *)
(* Numbers that are floats in the source are scaled by 100                 *)
(* (0.6 -> 60, 0.75 -> 75).  Python's None is the string "None" for        *)
(* string-typed fields and NoResult for payloads.                          *)
(***************************************************************************)
EXTENDS Integers, Sequences, FiniteSets, TLC

\* ---------------------------------------------------------------- bounds
MaxRequests == 2
CallCap == 5
StageCap == 18
MaxElapsed == 0
MaxRows == 3
MaxClock == 2
TextLimit == 1000
MaxDocs == 2
MaxK == 2

\* ------------------------------------------------------ program constants
MAX_CONTEXT_MESSAGES == 10
SUMMARIZATION_THRESHOLD == 20
SUMMARIZATION_KEEP_RECENT == 5
HALLUCINATION_THRESHOLD == 70
MAX_HALLUCINATION_CHECKS == 2
CONFIDENCE_MIN == 60
MAX_RETRIES_DEFAULT == 2
SESSION_CACHE_MAX == 1000
FALLBACK_CONFIDENCE == 50
FAIL_OPEN_SCORE == 75

\* payloads one request can show the quality gate: the gate asks for a redo
\* only while fewer than MAX_HALLUCINATION_CHECKS checks were made
PlanLen == MAX_HALLUCINATION_CHECKS

\* ------------------------------------------------------------ input sets
Sessions == {"s1", "s2"}
Queries == {"q1"}
Modes == {"unary", "stream"}
None == "None"
Tools == {"activity_generator", "crisis_handler"}
\* what the router's JSON reply may name: a registered tool, a tool that is
\* not registered, or null
RouterTools == Tools \cup {"content_explainer", None}
RouterConfidences == {20, 60, 150}
ValidatorScores == {50, 70}
NoResult == [tool |-> None, n |-> 0]

VARIABLES
    conversations,  \* durable store: session ids in table conversations
    messages,       \* durable store: rows of table messages, in id order
    contexts,       \* hot cache: sequence of [sid, msgs], least recently used first
    pc,             \* position of the request in process()/process_streaming()
    req,            \* the request being processed
    st,             \* OrchestratorState of the running graph
    qualityPlan,    \* score the validator model gives the k-th executed payload
    calls,          \* per-request counts of external calls and node executions
    response,       \* record returned by process() (unary mode)
    events,         \* summary of the events yielded by process_streaming()
    apiResult,      \* value returned by the last call that is not a request
    updated_at,     \* durable store: column updated_at of table conversations
    now,            \* the clock read by datetime.utcnow()
    tasks,          \* requests running concurrently in Load context
    documents,      \* retrieval corpus: rows of table documents, in id order
    answer          \* value returned by the last RAGOrchestrator.query()

vars == <<conversations, messages, contexts, pc, req, st, qualityPlan, calls,
          response, events, apiResult, updated_at, now, tasks, documents,
          answer>>

\* ------------------------------------------------------------- utilities
Inc(c) == IF c < CallCap THEN c + 1 ELSE c

IncStage(c) == IF c < StageCap THEN c + 1 ELSE c

\* one more node executed
Stage(c) == [c EXCEPT !.stages = IncStage(@)]

\* one more node executed, which made the external call k
Bump(c, k) == [Stage(c) EXCEPT ![k] = Inc(@)]

LastN(s, n) == IF Len(s) <= n THEN s ELSE SubSeq(s, Len(s) - n + 1, Len(s))

\* rows of table messages that belong to session sid, in id order
SelectSeq2(s, sid) == SelectSeq(s, LAMBDA r : r.sid = sid)

\* ------------------------------------------------------ hot cache (LRU)
CacheHas(c, sid) == \E i \in 1..Len(c) : c[i].sid = sid

CacheIdx(c, sid) == CHOOSE i \in 1..Len(c) : c[i].sid = sid

CacheRemove(c, sid) ==
    LET i == CacheIdx(c, sid)
    IN SubSeq(c, 1, i - 1) \o SubSeq(c, i + 1, Len(c))

\* self.contexts[sid]: returns the entry and marks it most recently used
CacheTouch(c, sid) == Append(CacheRemove(c, sid), c[CacheIdx(c, sid)])

\* a cache that grows without evicting
CachePutNoEvict(c, sid, msgs) ==
    LET base == IF CacheHas(c, sid) THEN CacheRemove(c, sid) ELSE c
    IN Append(base, [sid |-> sid, msgs |-> msgs])

\* self.contexts[sid] = ConversationContext(...): evicts the least recently
\* used entry when the cache is full
CachePut(c, sid, msgs) ==
    LET base == IF CacheHas(c, sid) THEN CacheRemove(c, sid)
                ELSE IF Len(c) >= SESSION_CACHE_MAX THEN Tail(c) ELSE c
    IN Append(base, [sid |-> sid, msgs |-> msgs])

CacheMsgs(c, sid) == c[CacheIdx(c, sid)].msgs

\* ctx.add_message / ctx.messages = ...: mutates the cached object in place
CacheSetMsgs(c, sid, msgs) ==
    [c EXCEPT ![CacheIdx(c, sid)] = [sid |-> sid, msgs |-> msgs]]

\* ---------------------------------------------------------- durable store
\* a store that persists user messages only
StoreAddUserOnly(rows, sid, role, content, r) ==
    IF role = "user"
    THEN Append(rows, [sid |-> sid, role |-> role, content |-> content, req |-> r])
    ELSE rows

\* ConversationStorage.add_message: INSERT OR IGNORE the session, INSERT the row
StoreAdd(rows, sid, role, content, r) ==
    Append(rows, [sid |-> sid, role |-> role, content |-> content, req |-> r])

\* get_messages without the reversal of the fetched rows
GetMessagesNewestFirst(rows, sid, limit) ==
    LET r == LastN(SelectSeq2(rows, sid), limit)
    IN [i \in 1..Len(r) |-> r[Len(r) + 1 - i]]

\* ConversationStorage.get_messages(sid, limit): last `limit` rows, oldest first
GetMessages(rows, sid, limit) == LastN(SelectSeq2(rows, sid), limit)

\* UPDATE conversations SET updated_at = now WHERE session_id = sid (the row
\* is there: INSERT OR IGNORE ran first)
Stamp(u, sid, t) ==
    [x \in DOMAIN u \cup {sid} |-> IF x = sid THEN t ELSE u[x]]

Msg(role, content, r) == [role |-> role, content |-> content, req |-> r]

RECURSIVE AsCtxMsgs(_)
AsCtxMsgs(rows) ==
    IF rows = <<>> THEN <<>>
    ELSE <<Msg(Head(rows).role, Head(rows).content, Head(rows).req)>>
         \o AsCtxMsgs(Tail(rows))

\* --------------------------------------------------------- pipeline state
\* initial_state built by process() and process_streaming()
InitialState(q, sid) ==
    [query |-> q, session_id |-> sid, messages |-> <<>>,
     selected_tool |-> None, confidence |-> 0,
     retry_count |-> 0, max_retries |-> MAX_RETRIES_DEFAULT,
     is_valid |-> TRUE, validation_message |-> None,
     hallucination_score |-> 100, hallucination_check_count |-> 0,
     needs_hallucination_recheck |-> FALSE,
     needs_follow_up |-> FALSE, follow_up_action |-> None,
     tool_result |-> NoResult, error |-> None]

\* LangGraph applies a node's returned dict to the state channels; a key
\* that OrchestratorState does not declare has no channel and is dropped
Update(s, u) == [k \in DOMAIN s |-> IF k \in DOMAIN u THEN u[k] ELSE s[k]]

NoRequest == [no |-> 0, query |-> None, session_id |-> None, mode |-> None,
              startLen |-> 0]
NoResponse == [tool_used |-> None, result |-> NoResult, confidence |-> 0,
               processing_time_ms |-> 0, error |-> None, returned |-> FALSE]
NoEvents == [nodes |-> 0, terminals |-> <<>>, late |-> FALSE,
             data |-> [tool_used |-> None, result |-> NoResult,
                       confidence |-> 0, error |-> None]]
\* bookkeeping of one request: numbers of Route, tool, validator and
\* follow-up calls and of executed nodes, what happened on the way (fault,
\* only low confidences, only failed Route calls, ...), the
\* payload fields _translate_text returned translated and those for which it
\* logged translation_failed
ZeroCalls == [route |-> 0, exec |-> 0, validator |-> 0, followup |-> 0,
              stages |-> 0, fault |-> "none", lowOnly |-> TRUE,
              fallbackOnly |-> TRUE,
              firstRejected |-> FALSE, otherTool |-> FALSE,
              toolRaised |-> FALSE, translated |-> {}, failed |-> {}]

\* no request is in Load context
NoTasks == <<>>

\* nothing was asked of the retrieval engine yet
NoAnswer == [kind |-> None, sources |-> <<>>, query |-> <<0, 0>>, top_k |-> 0,
             filters |-> None]

Init ==
    /\ conversations = {}
    /\ messages = <<>>
    /\ contexts = <<>>
    /\ pc = "idle"
    /\ req = NoRequest
    /\ st = InitialState(None, None)
    /\ qualityPlan = [k \in 1..PlanLen |-> HALLUCINATION_THRESHOLD]
    /\ calls = ZeroCalls
    /\ response = NoResponse
    /\ events = NoEvents
    /\ apiResult = None
    /\ updated_at = [sid \in conversations |-> 0]
    /\ now = 0
    /\ tasks = NoTasks
    /\ documents = <<>>
    /\ answer = NoAnswer

\* ------------------------------------------------------------- responses
\* OrchestratorOutput with an unconstrained confidence field
OutputValidNoRange(tool_used, confidence) == tool_used # None

\* OrchestratorOutput(...): pydantic validates tool_used: str and
\* confidence: ge=0.0, le=1.0; a violation raises ValidationError
OutputValid(tool_used, confidence) ==
    /\ tool_used # None
    /\ confidence >= 0
    /\ confidence <= 100

Output(tool_used, result, confidence, ms, error) ==
    [tool_used |-> tool_used, result |-> result, confidence |-> confidence,
     processing_time_ms |-> ms, error |-> error, returned |-> TRUE]

\* the except branch of process()
ErrorOutput(ms, e) == Output("none", NoResult, 0, ms, e)

\* a response built from the final graph state, or the except branch when
\* its construction raises
BuildOutput(tool_used, result, confidence, ms, error) ==
    IF OutputValid(tool_used, confidence)
    THEN Output(tool_used, result, confidence, ms, error)
    ELSE ErrorOutput(ms, "ValidationError")

\* an event yielded by process_streaming() after the graph loop
Terminal(ev, type, data) ==
    [ev EXCEPT !.terminals = Append(@, type), !.data = data]

NoData == [tool_used |-> None, result |-> NoResult, confidence |-> 0,
           error |-> None]

\* the final event yielded before the failure is noticed
StreamErrorAfterFinal(ev, e) ==
    Terminal(Terminal(ev, "final", NoData), "error", [NoData EXCEPT !.error = e])

\* the except branch of process_streaming(): one error event
StreamError(ev, e) == Terminal(ev, "error", [NoData EXCEPT !.error = e])

\* a node event yielded inside the astream loop
EmitNode(ev) ==
    IF req.mode = "stream"
    THEN [ev EXCEPT !.nodes = IncStage(@), !.late = @ \/ ev.terminals # <<>>]
    ELSE ev

\* an exception that escapes the graph: process() returns the except-branch
\* record, process_streaming() yields one error event
Raise(e) ==
    /\ pc' = "done"
    /\ IF req.mode = "unary"
       THEN /\ \E ms \in 0..MaxElapsed : response' = ErrorOutput(ms, e)
            /\ events' = events
       ELSE /\ response' = response
            /\ events' = StreamError(events, e)

\* the node returned: the graph moves on and streaming yields a node event
Advance(next) ==
    /\ pc' = next
    /\ events' = EmitNode(events)
    /\ UNCHANGED response

\* ------------------------------------------------------------ operations
\* process(input_data) / process_streaming(input_data) up to the graph start
StartRequest(sid, q, mode) ==
    /\ pc = "idle"
    /\ req.no < MaxRequests
    /\ req' = [no |-> req.no + 1, query |-> q, session_id |-> sid, mode |-> mode,
               startLen |-> Len(messages)]
    /\ st' = InitialState(q, sid)
    /\ pc' = "understand_query"
    /\ apiResult' = None
    /\ UNCHANGED <<conversations, messages, contexts, qualityPlan, calls,
                   response, events, updated_at, now,
                   tasks, documents, answer>>

\* a summarizer that keeps every message when the model call fails
SummarizedKeepAll(msgs, modelOk) ==
    LET split == Len(msgs) - SUMMARIZATION_KEEP_RECENT
        older == SubSeq(msgs, 1, split)
        recent == SubSeq(msgs, split + 1, Len(msgs))
    IN IF Len(msgs) <= SUMMARIZATION_THRESHOLD THEN msgs
       ELSE IF modelOk THEN <<Msg("system", "summary", older[1].req)>> \o recent
       ELSE msgs

\* what _summarize_context leaves in ctx.messages
Summarized(msgs, modelOk) ==
    LET split == Len(msgs) - SUMMARIZATION_KEEP_RECENT
        older == SubSeq(msgs, 1, split)
        recent == SubSeq(msgs, split + 1, Len(msgs))
    IN IF Len(msgs) <= SUMMARIZATION_THRESHOLD THEN msgs
       ELSE IF modelOk THEN <<Msg("system", "summary", older[1].req)>> \o recent
       ELSE recent

\* a summarizer that also drops the summarized rows from the store
StoreAfterSummaryTrim(rows, sid, ran) ==
    IF ran
    THEN LET mine == SelectSeq2(rows, sid)
             kept == LastN(mine, SUMMARIZATION_KEEP_RECENT)
         IN SelectSeq(rows, LAMBDA r : r.sid # sid
                                     \/ \E i \in 1..Len(kept) : kept[i] = r)
    ELSE rows

\* what _summarize_context leaves in the durable store: it makes no storage
\* call on either path
StoreAfterSummary(rows, sid, ran) == rows

UnderstandQuery ==
    /\ pc = "understand_query"
    /\ \E existsOk \in BOOLEAN, getOk \in BOOLEAN, addOk \in BOOLEAN,
          sumOk \in BOOLEAN :
        LET sid == st.session_id
            cached == CacheHas(contexts, sid)
            c1 == IF cached THEN contexts ELSE CachePut(contexts, sid, <<>>)
            existsRaises == ~cached /\ ~existsOk
            hydrate == ~cached /\ existsOk /\ sid \in conversations
            getRaises == hydrate /\ ~getOk
            prev == IF hydrate /\ getOk
                    THEN AsCtxMsgs(GetMessages(messages, sid, MAX_CONTEXT_MESSAGES))
                    ELSE <<>>
            c2 == IF prev # <<>> THEN CacheSetMsgs(CacheTouch(c1, sid), sid, prev)
                  ELSE c1
            c3 == CacheTouch(c2, sid)
            withUser == Append(CacheMsgs(c3, sid), Msg("user", st.query, req.no))
            c4 == CacheSetMsgs(c3, sid, withUser)
            final == Summarized(withUser, sumOk)
            c5 == CacheSetMsgs(c4, sid, final)
        IN IF existsRaises \/ getRaises
           THEN /\ contexts' = c1
                /\ calls' = [calls EXCEPT !.fault = "read"]
                /\ Raise("StorageError")
                /\ UNCHANGED <<conversations, messages, st, updated_at>>
           ELSE IF ~addOk
           THEN /\ contexts' = c4
                /\ calls' = [calls EXCEPT !.fault = "write"]
                /\ Raise("StorageError")
                /\ UNCHANGED <<conversations, messages, st, updated_at>>
           ELSE /\ contexts' = c5
                /\ conversations' = conversations \cup {sid}
                /\ messages' = StoreAfterSummary(
                                    StoreAdd(messages, sid, "user", st.query, req.no),
                                    sid, Len(withUser) > SUMMARIZATION_THRESHOLD)
                /\ updated_at' = Stamp(updated_at, sid, now)
                /\ st' = Update(st, [messages |-> LastN(final, MAX_CONTEXT_MESSAGES)])
                /\ calls' = Stage(calls)
                /\ Advance("select_tool")
    /\ UNCHANGED <<req, qualityPlan, apiResult, now,
                   tasks, documents, answer>>

\* the default selection of _select_tool_node when the model call raises,
\* the reply is empty or it is not JSON
RouteFallback ==
    [selected_tool |-> "activity_generator", confidence |-> FALLBACK_CONFIDENCE]

\* what _select_tool_node may return: the parsed reply of the router model,
\* or the default selection
RouteResults ==
    [selected_tool : RouterTools, confidence : RouterConfidences]
    \cup {RouteFallback}

SelectTool ==
    /\ pc = "select_tool"
    /\ \E r \in RouteResults :
        /\ st' = Update(st, r)
        /\ calls' = [Bump(calls, "route") EXCEPT
                       !.lowOnly = @ /\ r.confidence < CONFIDENCE_MIN,
                       !.fallbackOnly = @ /\ r = RouteFallback,
                       !.otherTool = @ \/ r.selected_tool # "activity_generator"]
    /\ Advance("check_confidence")
    /\ UNCHANGED <<conversations, messages, contexts, req, qualityPlan, apiResult,
                   updated_at, now,
                   tasks, documents, answer>>

\* the retry ceiling compared with > instead of >=
RouteBasedOnConfidenceStrict(s) ==
    IF s.retry_count > s.max_retries THEN "end"
    ELSE IF s.confidence < CONFIDENCE_MIN THEN "retry"
    ELSE "execute"

\* exhausted retries run the tool instead of ending the graph
RouteBasedOnConfidenceExecuteAnyway(s) ==
    IF s.retry_count >= s.max_retries THEN "execute"
    ELSE IF s.confidence < CONFIDENCE_MIN THEN "retry"
    ELSE "execute"

RouteBasedOnConfidence(s) ==
    IF s.retry_count >= s.max_retries THEN "end"
    ELSE IF s.confidence < CONFIDENCE_MIN THEN "retry"
    ELSE "execute"

CheckConfidence ==
    /\ pc = "check_confidence"
    /\ st' = Update(st, [retry_count |-> st.retry_count,
                         max_retries |-> MAX_RETRIES_DEFAULT])
    /\ calls' = Stage(calls)
    /\ LET edge == RouteBasedOnConfidence(st')
       IN Advance(IF edge = "execute" THEN "execute_tool"
                  ELSE IF edge = "retry" THEN "retry" ELSE "finalize")
    /\ UNCHANGED <<conversations, messages, contexts, req, qualityPlan, apiResult,
                   updated_at, now,
                   tasks, documents, answer>>

\* a retry node that forgets to count
RetryUpdateNoIncrement(s) == [retry_count |-> s.retry_count]

\* the dict _retry_node returns
RetryUpdate(s) == [retry_count |-> s.retry_count + 1]

RetryNode ==
    /\ pc = "retry"
    /\ st' = Update(st, RetryUpdate(st))
    /\ calls' = Stage(calls)
    /\ Advance("select_tool")
    /\ UNCHANGED <<conversations, messages, contexts, req, qualityPlan, apiResult,
                   updated_at, now,
                   tasks, documents, answer>>

ExecuteTool ==
    /\ pc = "execute_tool"
    /\ IF st.selected_tool \notin Tools
       THEN /\ st' = Update(st, [tool_result |-> NoResult, error |-> "Unknown tool"])
            /\ calls' = Stage(calls)
            /\ UNCHANGED qualityPlan
       ELSE \/ /\ st' = Update(st, [tool_result |->
                                      [tool |-> st.selected_tool, n |-> Inc(calls.exec)],
                                    error |-> None])
               /\ calls' = Bump(calls, "exec")
               /\ IF calls.exec = 0
                  THEN qualityPlan' \in [1..PlanLen -> ValidatorScores]
                  ELSE UNCHANGED qualityPlan
            \/ /\ st' = Update(st, [tool_result |-> NoResult, error |-> "ToolRaised"])
               /\ calls' = [Bump(calls, "exec") EXCEPT !.toolRaised = TRUE]
               /\ UNCHANGED qualityPlan
    /\ Advance("validate_output")
    /\ UNCHANGED <<conversations, messages, contexts, req, apiResult,
                   updated_at, now,
                   tasks, documents, answer>>

ValidateOutput ==
    /\ pc = "validate_output"
    /\ st' = IF st.error # None \/ st.tool_result = NoResult
             THEN Update(st, [is_valid |-> FALSE,
                              validation_message |->
                                  IF st.error # None THEN "Tool execution failed"
                                  ELSE "Tool returned no result",
                              needs_follow_up |-> FALSE])
             ELSE Update(st, [is_valid |-> TRUE,
                              validation_message |-> "Output validated successfully",
                              needs_follow_up |-> (st.selected_tool = "crisis_handler"),
                              follow_up_action |->
                                  IF st.selected_tool = "crisis_handler"
                                  THEN "activity_generator" ELSE None])
    /\ calls' = Stage(calls)
    /\ Advance("check_hallucination")
    /\ UNCHANGED <<conversations, messages, contexts, req, qualityPlan, apiResult,
                   updated_at, now,
                   tasks, documents, answer>>

RouteAfterHallucinationCheck(s) ==
    IF s.needs_hallucination_recheck
       /\ s.hallucination_check_count < MAX_HALLUCINATION_CHECKS THEN "retry"
    ELSE IF s.needs_follow_up THEN "follow_up"
    ELSE "end"

\* score the validator model gives the n-th executed payload
PlanScore(n) == qualityPlan[IF n > PlanLen THEN PlanLen ELSE n]

\* a gate that looks at the selected tool only
SkipsQualityGateToolOnly(s) == s.selected_tool # "activity_generator"

\* _check_hallucination_node leaves the validator out for every tool but the
\* activity generator, and when there is no payload
SkipsQualityGate(s) ==
    s.selected_tool # "activity_generator" \/ s.tool_result = NoResult

\* the recommendations enumerated for a validator reply with this score: a
\* low score comes with "Regenerate", a passing one with either verdict
Recommendations(score) ==
    IF score < HALLUCINATION_THRESHOLD THEN {"Regenerate"}
    ELSE {"Accept", "Regenerate"}

\* a validator failure that rejects the payload
FailClosed == [hallucination_score |-> 0, recommendation |-> "Regenerate"]

\* the except branch of _detect_hallucination: accept
FailOpen == [hallucination_score |-> FAIL_OPEN_SCORE, recommendation |-> "Accept"]

\* what _detect_hallucination may return for a payload: the score and the
\* recommendation of the validator's reply, or the fail-open default when the
\* call, the formatting of the payload or the parsing of the reply raises
DetectHallucination(payload) ==
    IF payload = NoResult THEN {FailOpen}
    ELSE {[hallucination_score |-> PlanScore(payload.n), recommendation |-> v] :
             v \in Recommendations(PlanScore(payload.n))} \cup {FailOpen}

CheckHallucination ==
    /\ pc = "check_hallucination"
    /\ IF SkipsQualityGate(st)
       THEN /\ st' = Update(st, [hallucination_score |-> 100,
                                 hallucination_check_count |-> 0,
                                 needs_hallucination_recheck |-> FALSE])
            /\ calls' = Stage(calls)
       ELSE \E validation \in DetectHallucination(st.tool_result) :
            LET score == validation.hallucination_score
            IN
            /\ st' = Update(st, [hallucination_score |-> score,
                                 hallucination_check_count |->
                                     st.hallucination_check_count + 1,
                                 needs_hallucination_recheck |->
                                     ~(score >= HALLUCINATION_THRESHOLD),
                                 validation_message |-> validation.recommendation])
            /\ calls' = [Bump(calls, "validator") EXCEPT
                           !.firstRejected = @ \/ (st.tool_result.n = 1
                                                   /\ score < HALLUCINATION_THRESHOLD)]
    /\ LET edge == RouteAfterHallucinationCheck(st')
       IN Advance(IF edge = "retry" THEN "retry"
                  ELSE IF edge = "follow_up" THEN "handle_follow_up"
                  ELSE "finalize")
    /\ UNCHANGED <<conversations, messages, contexts, req, qualityPlan, apiResult,
                   updated_at, now,
                   tasks, documents, answer>>

\* _handle_follow_up_node runs the follow-up tool and returns its payload (or
\* the caught error) under follow_up_result, a key OrchestratorState lacks
HandleFollowUp ==
    /\ pc = "handle_follow_up"
    /\ IF st.follow_up_action \notin Tools
       THEN /\ st' = st
            /\ calls' = Stage(calls)
       ELSE /\ \E r \in {"payload", "error"} :
                st' = Update(st, [follow_up_result |-> r])
            /\ calls' = Bump(calls, "followup")
    /\ Advance("finalize")
    /\ UNCHANGED <<conversations, messages, contexts, req, qualityPlan, apiResult,
                   updated_at, now,
                   tasks, documents, answer>>

\* content of the assistant message written after a successful run
AssistantMessage(s) == "Generated activity"

\* if session_id in self.contexts: self.contexts[session_id].add_message(...)
AddAssistant(c, sid, content, r) ==
    IF CacheHas(c, sid)
    THEN LET t == CacheTouch(c, sid)
         IN CacheSetMsgs(t, sid, Append(CacheMsgs(t, sid), Msg("assistant", content, r)))
    ELSE c

\* final_state.get("follow_up_result")
FollowUpResult(s) ==
    IF "follow_up_result" \in DOMAIN s THEN s.follow_up_result ELSE None

\* if follow_up_result: result["follow_up"] = follow_up_result
WithFollowUp(result, f) ==
    IF f # None
    THEN [tool |-> result.tool, n |-> result.n, follow_up |-> f]
    ELSE result

\* ------------------------------------------------------ language front-end
\* the Hindi utterance of test_multilang_circle.py, written in Latin letters
\* with its word lengths: 47 Devanagari characters and 11 spaces
HindiQuery == "gole ke bare mem baccom ko sikhne ke lie ek gtividhi btaie"

\* the scripts _detect_language looks for, in the order it tries them
ScriptOrder == <<"hi", "ta", "bn", "te", "gu">>

\* number of characters of q in the Unicode block of the language's script;
\* the letters of the Hindi utterance stand for Devanagari characters
ScriptChars(q, lang) == IF q = HindiQuery /\ lang = "hi" THEN Len(q) - 11 ELSE 0

\* _detect_language(text): the first script with more than 30% of the
\* characters, or English
DetectLanguage(q) ==
    LET hits == {i \in 1..Len(ScriptOrder) :
                    Len(q) > 0 /\ ScriptChars(q, ScriptOrder[i]) * 10 > Len(q) * 3}
    IN IF hits = {} THEN "en"
       ELSE ScriptOrder[CHOOSE i \in hits : \A j \in hits : i <= j]

\* the fields of an ActivityOutput that process() hands to _translate_text
TranslatableFields ==
    {"activity_name", "description", "learning_outcome", "steps",
     "materials_needed", "tips"}

\* if detected_lang != 'en' and isinstance(result, ActivityOutput): the
\* result is an ActivityOutput only for the activity generator
Translates(lang, tool) == lang # "en" /\ tool = "activity_generator"

\* result = ActivityOutput(**result): keys the model does not declare are
\* ignored
ToActivityOutput(result) == [tool |-> result.tool, n |-> result.n]

\* the payload after the translation block: the language of each field's
\* text; _translate_text returns the original where the model call failed
TranslatedResult(result, lang, failed) ==
    [tool |-> result.tool, n |-> result.n,
     text |-> [f \in TranslatableFields |-> IF f \in failed THEN "en" ELSE lang]]

\* the payload process() returns: the follow-up attached (never present, see
\* Update), converted to ActivityOutput for the activity generator, translated
UnaryResult(s, q, failed) ==
    LET lang == DetectLanguage(q)
        attached == WithFollowUp(s.tool_result, FollowUpResult(s))
        typed == IF s.selected_tool = "activity_generator"
                 THEN ToActivityOutput(attached) ELSE attached
    IN IF Translates(lang, s.selected_tool)
       THEN TranslatedResult(typed, lang, failed)
       ELSE typed

\* the record process() builds from the final graph state s when nothing
\* raises after the graph returned
UnaryRecord(s, q, ms, failed) ==
    IF s.error # None
    THEN BuildOutput(s.selected_tool, NoResult, s.confidence, ms, s.error)
    ELSE IF s.tool_result = NoResult
    THEN BuildOutput(s.selected_tool, NoResult, s.confidence, ms,
                     "No result generated by tool")
    ELSE BuildOutput(s.selected_tool, UnaryResult(s, q, failed), s.confidence,
                     ms, None)

\* the payload of the final event of process_streaming()
StreamResult(s) ==
    IF s.tool_result = NoResult THEN NoResult
    ELSE LET attached == WithFollowUp(s.tool_result, FollowUpResult(s))
         IN IF s.selected_tool = "activity_generator"
            THEN ToActivityOutput(attached) ELSE attached

\* the data of the final event process_streaming() yields from the final
\* graph state s
StreamData(s) ==
    [tool_used |-> s.selected_tool, result |-> StreamResult(s),
     confidence |-> s.confidence, error |-> s.error]

\* process() after ainvoke returned: build the response from the final state
FinalizeUnary ==
    /\ pc = "finalize"
    /\ req.mode = "unary"
    /\ \E ms \in 0..MaxElapsed, addOk \in BOOLEAN :
        IF st.error # None \/ st.tool_result = NoResult
        THEN /\ response' = UnaryRecord(st, req.query, ms, {})
             /\ UNCHANGED <<conversations, messages, contexts, calls, updated_at>>
        ELSE LET translate == Translates(DetectLanguage(req.query), st.selected_tool)
             IN \E failed \in (IF translate THEN SUBSET TranslatableFields
                                ELSE {{}}) :
                 LET done == [calls EXCEPT
                                !.translated = IF translate
                                               THEN TranslatableFields \ failed
                                               ELSE {},
                                !.failed = failed]
                 IN /\ contexts' = AddAssistant(contexts, req.session_id,
                                                AssistantMessage(st), req.no)
                    /\ IF addOk
                       THEN /\ messages' = StoreAdd(messages, req.session_id,
                                                    "assistant",
                                                    AssistantMessage(st), req.no)
                            /\ conversations' = conversations \cup {req.session_id}
                            /\ updated_at' = Stamp(updated_at, req.session_id, now)
                            /\ response' = UnaryRecord(st, req.query, ms, failed)
                            /\ calls' = done
                       ELSE /\ response' = ErrorOutput(ms, "StorageError")
                            /\ calls' = [done EXCEPT !.fault = "write"]
                            /\ UNCHANGED <<conversations, messages, updated_at>>
    /\ pc' = "done"
    /\ UNCHANGED <<req, st, qualityPlan, events, apiResult, now,
                   tasks, documents, answer>>

\* process_streaming() after the astream loop: yield the final event
FinalizeStream ==
    /\ pc = "finalize"
    /\ req.mode = "stream"
    /\ \E addOk \in BOOLEAN :
        IF st.tool_result = NoResult
        THEN /\ events' = Terminal(events, "final", StreamData(st))
             /\ UNCHANGED <<conversations, messages, contexts, calls, updated_at>>
        ELSE /\ contexts' = AddAssistant(contexts, req.session_id,
                                         AssistantMessage(st), req.no)
             /\ IF addOk
                THEN /\ messages' = StoreAdd(messages, req.session_id, "assistant",
                                             AssistantMessage(st), req.no)
                     /\ conversations' = conversations \cup {req.session_id}
                     /\ updated_at' = Stamp(updated_at, req.session_id, now)
                     /\ events' = Terminal(events, "final", StreamData(st))
                     /\ UNCHANGED calls
                ELSE /\ events' = StreamError(events, "StorageError")
                     /\ calls' = [calls EXCEPT !.fault = "write"]
                     /\ UNCHANGED <<conversations, messages, updated_at>>
    /\ pc' = "done"
    /\ UNCHANGED <<req, st, qualityPlan, response, apiResult, now,
                   tasks, documents, answer>>

\* the caller has the response (or the last event); the pipeline state of
\* the request is discarded
Return ==
    /\ pc = "done"
    /\ pc' = "idle"
    /\ st' = InitialState(None, None)
    /\ qualityPlan' = [k \in 1..PlanLen |-> HALLUCINATION_THRESHOLD]
    /\ calls' = ZeroCalls
    /\ response' = NoResponse
    /\ events' = NoEvents
    /\ UNCHANGED <<conversations, messages, contexts, req, apiResult,
                   updated_at, now,
                   tasks, documents, answer>>

\* self.contexts.get(session_id): the cached session, named here by its
\* session id, or None
GetContextResult(c, sid) == IF CacheHas(c, sid) THEN sid ELSE None

\* get_context(session_id); a hit marks the session most recently used
GetContext(sid) ==
    /\ pc = "idle"
    /\ apiResult' = GetContextResult(contexts, sid)
    /\ contexts' = IF CacheHas(contexts, sid) THEN CacheTouch(contexts, sid)
                   ELSE contexts
    /\ UNCHANGED <<conversations, messages, pc, req, st, qualityPlan, calls,
                   response, events, updated_at, now,
                   tasks, documents, answer>>

\* a clear_context that also deletes the session from the durable store
ClearContextAndStore(sid) ==
    /\ pc = "idle"
    /\ IF CacheHas(contexts, sid)
       THEN /\ contexts' = CacheRemove(contexts, sid)
            /\ apiResult' = "True"
       ELSE /\ contexts' = contexts
            /\ apiResult' = "False"
    /\ messages' = SelectSeq(messages, LAMBDA r : r.sid # sid)
    /\ conversations' = conversations \ {sid}
    /\ updated_at' = [x \in DOMAIN updated_at \ {sid} |-> updated_at[x]]
    /\ UNCHANGED <<pc, req, st, qualityPlan, calls, response, events, now,
                   tasks, documents, answer>>

\* clear_context(session_id)
ClearContext(sid) ==
    /\ pc = "idle"
    /\ IF CacheHas(contexts, sid)
       THEN /\ contexts' = CacheRemove(contexts, sid)
            /\ apiResult' = "True"
       ELSE /\ contexts' = contexts
            /\ apiResult' = "False"
    /\ UNCHANGED <<conversations, messages, pc, req, st, qualityPlan, calls,
                   response, events, updated_at, now,
                   tasks, documents, answer>>

\* a new ChanakyaOrchestrator on the same SQLite file: the hot cache starts
\* empty, the durable store is what it was
Restart ==
    /\ pc = "idle"
    /\ contexts # <<>>
    /\ contexts' = <<>>
    /\ apiResult' = None
    /\ UNCHANGED <<conversations, messages, pc, req, st, qualityPlan, calls,
                   response, events, updated_at, now,
                   tasks, documents, answer>>

GraphStep ==
    \/ UnderstandQuery
    \/ SelectTool
    \/ CheckConfidence
    \/ RetryNode
    \/ ExecuteTool
    \/ ValidateOutput
    \/ CheckHallucination
    \/ HandleFollowUp
    \/ FinalizeUnary
    \/ FinalizeStream

Next ==
    \/ \E sid \in Sessions, q \in Queries, mode \in Modes : StartRequest(sid, q, mode)
    \/ GraphStep
    \/ Return
    \/ \E sid \in Sessions : ClearContext(sid)
    \/ \E sid \in Sessions : GetContext(sid)
    \/ Restart

Spec == Init /\ [][Next]_vars

\* ---------------------------------------------------------- a warm engine
\* An engine that has served session s1 before: HistoryLen messages of
\* complete exchanges (and, when the length is odd, a last request that ended
\* at the confidence gate) are in the store and in the cached session.
WarmLens == {SUMMARIZATION_THRESHOLD - 1, SUMMARIZATION_THRESHOLD}

\* the number of the request that wrote the i-th of n messages
HistoryReq(i, n, last) == last - ((n + 1) \div 2) + ((i + 1) \div 2)

HistoryMsgs(n, last) ==
    [i \in 1..n |->
        IF i % 2 = 1 THEN Msg("user", "q1", HistoryReq(i, n, last))
        ELSE Msg("assistant", "Generated activity", HistoryReq(i, n, last))]

HistoryRows(sid, n, last) ==
    [i \in 1..n |->
        [sid |-> sid, role |-> HistoryMsgs(n, last)[i].role,
         content |-> HistoryMsgs(n, last)[i].content,
         req |-> HistoryMsgs(n, last)[i].req]]

\* requests served before the first state: two more fit under MaxRequests
WarmServed == MaxRequests - 2

WarmInit ==
    /\ \E n \in WarmLens :
        /\ messages = HistoryRows("s1", n, WarmServed)
        /\ contexts = <<[sid |-> "s1", msgs |-> HistoryMsgs(n, WarmServed)]>>
    /\ conversations = {"s1"}
    /\ pc = "idle"
    /\ req = [NoRequest EXCEPT !.no = WarmServed]
    /\ st = InitialState(None, None)
    /\ qualityPlan = [k \in 1..PlanLen |-> HALLUCINATION_THRESHOLD]
    /\ calls = ZeroCalls
    /\ response = NoResponse
    /\ events = NoEvents
    /\ apiResult = None
    /\ updated_at = [sid \in conversations |-> 0]
    /\ now = 0
    /\ tasks = NoTasks
    /\ documents = <<>>
    /\ answer = NoAnswer

WarmSpec == WarmInit /\ [][Next]_vars

\* ------------------------------------------------------------ a full cache
\* An engine whose hot cache is full, or one entry short of it: every cached
\* session was served one request, which wrote a user and an assistant
\* message.  The least recently used session comes first.
FillerSid(i) == "f" \o ToString(i)

Exchange(r) == <<Msg("user", "q1", r), Msg("assistant", "Generated activity", r)>>

\* sessions of the requests first..last, one request each, oldest first
Served(first, last) ==
    [i \in 1..(last - first + 1) |->
        [sid |-> FillerSid(first + i - 1), msgs |-> Exchange(first + i - 1)]]

\* the rows the requests of these cached sessions wrote, in id order
RowsOf(c) ==
    [j \in 1..(2 * Len(c)) |->
        LET e == c[(j + 1) \div 2]
            m == e.msgs[2 - (j % 2)]
        IN [sid |-> e.sid, role |-> m.role, content |-> m.content, req |-> m.req]]

\* requests served before the first state: one more fits under MaxRequests
CacheServed == MaxRequests - 1

\* the cached sessions: as many as the cache holds, all of them other
\* sessions; one fewer; or s1 as the least recently used of a full cache
CacheFills ==
    LET first == CacheServed - SESSION_CACHE_MAX + 1
    IN {Served(first, CacheServed),
        Served(first + 1, CacheServed),
        <<[sid |-> "s1", msgs |-> Exchange(first)]>> \o Served(first + 1, CacheServed)}

CacheInit ==
    /\ contexts \in CacheFills
    /\ messages = RowsOf(contexts)
    /\ conversations = {contexts[i].sid : i \in 1..Len(contexts)}
    /\ pc = "idle"
    /\ req = [NoRequest EXCEPT !.no = CacheServed]
    /\ st = InitialState(None, None)
    /\ qualityPlan = [k \in 1..PlanLen |-> HALLUCINATION_THRESHOLD]
    /\ calls = ZeroCalls
    /\ response = NoResponse
    /\ events = NoEvents
    /\ apiResult = None
    /\ updated_at = [sid \in conversations |-> 0]
    /\ now = 0
    /\ tasks = NoTasks
    /\ documents = <<>>
    /\ answer = NoAnswer

CacheSpec == CacheInit /\ [][Next]_vars

\* -------------------------------------------------------- the store alone
\* ConversationStorage driven directly: messages are added, time passes and
\* the retention sweep runs.  No caller of delete_old_sessions exists in the
\* orchestrator, so the sweep is an operation of the store's own interface.
RetentionDays == {0, 1, 2}

\* storage.add_message(sid, role, content)
AddMessage(sid, role) ==
    /\ Len(messages) < MaxRows
    /\ messages' = StoreAdd(messages, sid, role, "m", 0)
    /\ conversations' = conversations \cup {sid}
    /\ updated_at' = Stamp(updated_at, sid, now)
    /\ UNCHANGED <<contexts, pc, req, st, qualityPlan, calls, response, events,
                   apiResult, now,
                   tasks, documents, answer>>

\* datetime.utcnow() moves on by one day
Tick ==
    /\ now < MaxClock
    /\ now' = now + 1
    /\ UNCHANGED <<conversations, messages, contexts, pc, req, st, qualityPlan,
                   calls, response, events, apiResult, updated_at,
                   tasks, documents, answer>>

\* a sweep that also takes the sessions updated exactly at the cutoff
OldSessionsInclusive(convs, upd, cutoff) == {sid \in convs : upd[sid] <= cutoff}

\* SELECT session_id FROM conversations WHERE updated_at < cutoff
OldSessions(convs, upd, cutoff) == {sid \in convs : upd[sid] < cutoff}

\* storage.delete_old_sessions(days): returns the number of deleted sessions
\* (kept as text, like every other value of apiResult)
DeleteOldSessions(days) ==
    LET old == OldSessions(conversations, updated_at, now - days)
    IN /\ messages' = SelectSeq(messages, LAMBDA r : r.sid \notin old)
       /\ conversations' = conversations \ old
       /\ updated_at' = [sid \in conversations \ old |-> updated_at[sid]]
       /\ apiResult' = ToString(Cardinality(old))
       /\ UNCHANGED <<contexts, pc, req, st, qualityPlan, calls, response,
                      events, now,
                   tasks, documents, answer>>

StorageNext ==
    \/ \E sid \in Sessions, role \in {"user", "assistant"} : AddMessage(sid, role)
    \/ Tick
    \/ \E days \in RetentionDays : DeleteOldSessions(days)

StorageSpec == Init /\ [][StorageNext]_vars

\* ------------------------------------------------- utterances of all kinds
\* Callers build an OrchestratorInput and hand it to process() or
\* process_streaming(); the utterances are empty, short, as long as the
\* documented limit, one character longer, and Hindi.
RECURSIVE Repeat(_, _)
\* the string s written n times
Repeat(s, n) ==
    IF n = 0 THEN ""
    ELSE IF n % 2 = 1 THEN s \o Repeat(s \o s, n \div 2)
    ELSE Repeat(s \o s, n \div 2)

InputQueries ==
    {"", "q1", Repeat("a", TextLimit), Repeat("a", TextLimit + 1), HindiQuery}

\* OrchestratorInput.query: Field(..., min_length=1), no upper limit
InputValid(q) == Len(q) >= 1

\* OrchestratorInput(query=q, session_id=sid) raises ValidationError in the
\* caller; otherwise the request is processed
Submit(sid, q, mode) ==
    IF InputValid(q)
    THEN StartRequest(sid, q, mode)
    ELSE /\ pc = "idle"
         /\ apiResult' = "ValidationError"
         /\ UNCHANGED <<conversations, messages, contexts, pc, req, st,
                        qualityPlan, calls, response, events, updated_at, now,
                   tasks, documents, answer>>

\* requests served before the first state: one more fits under MaxRequests
InputServed == MaxRequests - 1

InputInit ==
    /\ conversations = {}
    /\ messages = <<>>
    /\ contexts = <<>>
    /\ pc = "idle"
    /\ req = [NoRequest EXCEPT !.no = InputServed]
    /\ st = InitialState(None, None)
    /\ qualityPlan = [k \in 1..PlanLen |-> HALLUCINATION_THRESHOLD]
    /\ calls = ZeroCalls
    /\ response = NoResponse
    /\ events = NoEvents
    /\ apiResult = None
    /\ updated_at = [sid \in conversations |-> 0]
    /\ now = 0
    /\ tasks = NoTasks
    /\ documents = <<>>
    /\ answer = NoAnswer

InputNext ==
    \/ \E sid \in Sessions, q \in InputQueries, mode \in Modes : Submit(sid, q, mode)
    \/ GraphStep
    \/ Return

InputSpec == InputInit /\ [][InputNext]_vars

\* the event loop resumes a suspended request whenever its pending call
\* resolves, so a request that can take a step eventually takes one
FairSpec == Spec /\ WF_vars(GraphStep)

\* ----------------------------------------------------- the retrieval engine
\* The corpus of src/embedding driven directly: documents are inserted and
\* RAGOrchestrator.query() is asked, one synchronous call at a time.
\* Embeddings are vectors of two integer components; an utterance is
\* identified with its query embedding, the empty utterance with the zero
\* vector.
Embeddings == {<<1, 0>>, <<1, 1>>, <<0, 0>>}

QueryEmbeddings == {<<1, 0>>, <<-1, 1>>, <<0, 0>>}

\* source strings split at "|": class, subject, book, language, page
Sources == {<<"6", "math", "book", "en", "1">>,
            <<"6", "math", "book", "hi", "1">>,
            <<"notes">>}

\* the filters argument: none, or {'language': 'en'}
SearchFilters == {None, "en"}

\* np.dot(a, b)
Dot(a, b) == a[1] * b[1] + a[2] * b[2]

\* np.linalg.norm(v) > 0
NormPositive(v) == Dot(v, v) > 0

\* the cosine similarity of a to q is greater than that of b to q:
\* dot(q,a)/(|q||a|) > dot(q,b)/(|q||b|), compared without the square roots
CosGreater(q, a, b) ==
    LET da == Dot(q, a)
        db == Dot(q, b)
    IN IF da >= 0 /\ db < 0 THEN TRUE
       ELSE IF da < 0 /\ db >= 0 THEN FALSE
       ELSE IF da >= 0 THEN da * da * Dot(b, b) > db * db * Dot(a, a)
       ELSE da * da * Dot(b, b) < db * db * Dot(a, a)

\* the filter loop of search_similar: with filters, a document needs a source
\* of at least four parts and the language asked for
MatchesFilters(doc, f) ==
    f = None \/ (Len(doc.source) >= 4 /\ doc.source[4] = f)

\* the list `similarities`: the documents a similarity is computed for, in
\* the order get_all_documents returned them (table order, ascending id)
Candidates(docs, q, f) ==
    SelectSeq(docs, LAMBDA d : /\ MatchesFilters(d, f)
                               /\ NormPositive(q)
                               /\ NormPositive(d.embedding))

RECURSIVE InsertDescBeforeTies(_, _, _)
\* an insertion that puts a document before those of equal similarity
InsertDescBeforeTies(sorted, d, q) ==
    IF sorted = <<>> THEN <<d>>
    ELSE IF ~CosGreater(q, Head(sorted).embedding, d.embedding)
    THEN <<d>> \o sorted
    ELSE <<Head(sorted)>> \o InsertDescBeforeTies(Tail(sorted), d, q)

RECURSIVE InsertDesc(_, _, _)
\* d placed in a list sorted by descending similarity, after the entries
\* whose similarity is not smaller: list.sort is stable, also with reverse
InsertDesc(sorted, d, q) ==
    IF sorted = <<>> THEN <<d>>
    ELSE IF CosGreater(q, d.embedding, Head(sorted).embedding)
    THEN <<d>> \o sorted
    ELSE <<Head(sorted)>> \o InsertDesc(Tail(sorted), d, q)

RECURSIVE SortDesc(_, _)
\* similarities.sort(key=lambda x: x[0], reverse=True)
SortDesc(s, q) ==
    IF s = <<>> THEN <<>>
    ELSE InsertDesc(SortDesc(SubSeq(s, 1, Len(s) - 1), q), s[Len(s)], q)

\* Database.search_similar(query_embedding, top_k, filters), top_k >= 0
SearchSimilar(docs, q, k, f) ==
    LET sorted == SortDesc(Candidates(docs, q, f), q)
    IN SubSeq(sorted, 1, IF k < Len(sorted) THEN k ELSE Len(sorted))

\* Database.insert_document(content, embedding, source): ids are assigned
\* in increasing order and rows are never deleted
InsertDocument(e, src) ==
    /\ answer = NoAnswer
    /\ Len(documents) < MaxDocs
    /\ documents' = Append(documents, [id |-> Len(documents) + 1,
                                       embedding |-> e, source |-> src])
    /\ UNCHANGED <<conversations, messages, contexts, pc, req, st, qualityPlan,
                   calls, response, events, apiResult, updated_at, now, tasks,
                   answer>>

\* RAGOrchestrator.query(query_text, top_k, filters): the canned answer when
\* nothing was retrieved; otherwise the model's answer with the sources, or
\* the exception of the model call
RagQuery(q, k, f) ==
    /\ answer = NoAnswer
    /\ LET relevant == SearchSimilar(documents, q, k, f)
           ids == [i \in 1..Len(relevant) |-> relevant[i].id]
       IN \E generated \in BOOLEAN :
           answer' = [kind |-> IF relevant = <<>> THEN "no relevant information"
                               ELSE IF generated THEN "generated" ELSE "raised",
                      sources |-> IF relevant # <<>> /\ ~generated THEN <<>> ELSE ids,
                      query |-> q, top_k |-> k, filters |-> f]
    /\ UNCHANGED <<conversations, messages, contexts, pc, req, st, qualityPlan,
                   calls, response, events, apiResult, updated_at, now, tasks,
                   documents>>

\* query() returned: the caller has the answer
AnswerTaken ==
    /\ answer # NoAnswer
    /\ answer' = NoAnswer
    /\ UNCHANGED <<conversations, messages, contexts, pc, req, st, qualityPlan,
                   calls, response, events, apiResult, updated_at, now, tasks,
                   documents>>

RetrievalNext ==
    \/ \E e \in Embeddings, src \in Sources : InsertDocument(e, src)
    \/ \E q \in QueryEmbeddings, k \in 0..MaxK, f \in SearchFilters : RagQuery(q, k, f)
    \/ AnswerTaken

RetrievalSpec == Init /\ [][RetrievalNext]_vars

\* ------------------------------------------- concurrent Load-context stages
\* Several requests are in _understand_query_node at once, as they are when
\* process() is awaited for several clients together.  The event loop runs one
\* coroutine at a time and switches only at an await, so every action below
\* is the code from one await to the next.  The store works; the engine has
\* served s1 before: its messages are cached (one short of the summarization
\* threshold, or at it), or they are in the store alone.
Tasks == 1..MaxRequests

\* a request that has not entered the node; snapshot is the message list
\* _summarize_context split before it awaited the model, stamp the order in
\* which the requests appended their utterance
NoTask == [pc |-> "new", sid |-> None, snapshot |-> <<>>, stamp |-> 0]

\* rows of session s1 in the store of an engine restarted after one exchange
ColdLen == 2

ConcInit ==
    /\ \/ \E n \in WarmLens :
            /\ messages = HistoryRows("s1", n, 0)
            /\ contexts = <<[sid |-> "s1", msgs |-> HistoryMsgs(n, 0)]>>
       \/ /\ messages = HistoryRows("s1", ColdLen, 0)
          /\ contexts = <<>>
    /\ conversations = {"s1"}
    /\ pc = "idle"
    /\ req = NoRequest
    /\ st = InitialState(None, None)
    /\ qualityPlan = [k \in 1..PlanLen |-> HALLUCINATION_THRESHOLD]
    /\ calls = ZeroCalls
    /\ response = NoResponse
    /\ events = NoEvents
    /\ apiResult = None
    /\ updated_at = [sid \in conversations |-> 0]
    /\ now = 0
    /\ tasks = [t \in Tasks |-> NoTask]
    /\ documents = <<>>
    /\ answer = NoAnswer

\* ctx = self.contexts[session_id]; ctx.add_message("user", query)
AppendUser(c, sid, t) ==
    LET touched == CacheTouch(c, sid)
    IN CacheSetMsgs(touched, sid, Append(CacheMsgs(touched, sid),
                                         Msg("user", "q1", t)))

\* the request appended its utterance and awaits storage.add_message
AwaitAdd(t, sid) ==
    [tasks EXCEPT ![t] = [pc |-> "add", sid |-> sid, snapshot |-> <<>>,
                          stamp |-> 1 + Cardinality({u \in Tasks :
                                                        tasks[u].stamp > 0})]]

\* the node up to its first await: a cached session goes on to append the
\* utterance, a new one is cached empty and session_exists is awaited
Enter(t, sid) ==
    /\ tasks[t].pc = "new"
    /\ IF CacheHas(contexts, sid)
       THEN /\ contexts' = AppendUser(contexts, sid, t)
            /\ tasks' = AwaitAdd(t, sid)
       ELSE /\ contexts' = CachePut(contexts, sid, <<>>)
            /\ tasks' = [tasks EXCEPT ![t] = [NoTask EXCEPT !.pc = "exists",
                                                            !.sid = sid]]
    /\ UNCHANGED <<conversations, messages, pc, req, st, qualityPlan, calls,
                   response, events, apiResult, updated_at, now, documents,
                   answer>>

\* session_exists returned: get_messages is awaited, or the utterance is
\* appended
SessionExists(t) ==
    /\ tasks[t].pc = "exists"
    /\ IF tasks[t].sid \in conversations
       THEN /\ tasks' = [tasks EXCEPT ![t].pc = "get"]
            /\ UNCHANGED contexts
       ELSE /\ contexts' = AppendUser(contexts, tasks[t].sid, t)
            /\ tasks' = AwaitAdd(t, tasks[t].sid)
    /\ UNCHANGED <<conversations, messages, pc, req, st, qualityPlan, calls,
                   response, events, apiResult, updated_at, now, documents,
                   answer>>

\* get_messages returned: the rows are appended to the cached session, then
\* the utterance
GotMessages(t) ==
    /\ tasks[t].pc = "get"
    /\ LET sid == tasks[t].sid
           prev == AsCtxMsgs(GetMessages(messages, sid, MAX_CONTEXT_MESSAGES))
           touched == CacheTouch(contexts, sid)
           hydrated == CacheSetMsgs(touched, sid, CacheMsgs(touched, sid) \o prev)
       IN /\ contexts' = AppendUser(hydrated, sid, t)
          /\ tasks' = AwaitAdd(t, sid)
    /\ UNCHANGED <<conversations, messages, pc, req, st, qualityPlan, calls,
                   response, events, apiResult, updated_at, now, documents,
                   answer>>

\* storage.add_message returned: the summarizer splits the list and awaits
\* the model, or the node returns
Added(t) ==
    /\ tasks[t].pc = "add"
    /\ LET sid == tasks[t].sid
           msgs == CacheMsgs(contexts, sid)
       IN /\ messages' = StoreAdd(messages, sid, "user", "q1", t)
          /\ conversations' = conversations \cup {sid}
          /\ updated_at' = Stamp(updated_at, sid, now)
          /\ tasks' = IF Len(msgs) > SUMMARIZATION_THRESHOLD
                      THEN [tasks EXCEPT ![t].pc = "summarize",
                                         ![t].snapshot = msgs]
                      ELSE [tasks EXCEPT ![t].pc = "loaded"]
    /\ UNCHANGED <<contexts, pc, req, st, qualityPlan, calls, response, events,
                   apiResult, now, documents, answer>>

\* the summarizer's model call returned or raised: ctx.messages is assigned
\* from the lists split before the await
SummaryReturned(t) ==
    /\ tasks[t].pc = "summarize"
    /\ \E modelOk \in BOOLEAN :
        contexts' = CacheSetMsgs(contexts, tasks[t].sid,
                                 Summarized(tasks[t].snapshot, modelOk))
    /\ tasks' = [tasks EXCEPT ![t].pc = "loaded", ![t].snapshot = <<>>]
    /\ UNCHANGED <<conversations, messages, pc, req, st, qualityPlan, calls,
                   response, events, apiResult, updated_at, now, documents,
                   answer>>

ConcNext ==
    \/ \E t \in Tasks, sid \in Sessions : Enter(t, sid)
    \/ \E t \in Tasks : SessionExists(t)
    \/ \E t \in Tasks : GotMessages(t)
    \/ \E t \in Tasks : Added(t)
    \/ \E t \in Tasks : SummaryReturned(t)

ConcSpec == ConcInit /\ [][ConcNext]_vars

\* ------------------------------------------------------------------ claims
Running == pc \notin {"idle", "done"}

UnaryDone == pc = "done" /\ req.mode = "unary"

StreamDone == pc = "done" /\ req.mode = "stream"

\* rows the durable store gained since the request started
NewRows == SubSeq(messages, req.startLen + 1, Len(messages))

\* C1: process() always returns a response record: tool_used is a string
\* (possibly "none"), confidence lies in [0,1] and processing_ms >= 0,
\* whatever the model, the tools and the store did during the request.
C1_ProcessAlwaysResponds ==
    UnaryDone =>
        /\ response.returned
        /\ response.tool_used # None
        /\ response.confidence >= 0
        /\ response.confidence <= 100
        /\ response.processing_time_ms >= 0

C1_Witness ==
    /\ UnaryDone
    /\ response.returned
    /\ response.error = "ValidationError"
    /\ st.confidence > 100
    /\ response.confidence = 0

\* C2: every graph run that process() or process_streaming() starts reaches
\* its terminal state: no Route/Execute/retry cycle runs forever.
C2_Terminates == Running ~> (pc = "done")

C2_Witness ==
    /\ pc = "done"
    /\ st.retry_count = MAX_RETRIES_DEFAULT
    /\ calls.exec = 1
    /\ calls.validator = 1
    /\ calls.route = 3

\* C3: the routing retry counter never exceeds MAX_ROUTING_RETRIES and the
\* quality-check counter never exceeds MAX_QUALITY_RETRIES; Route runs at
\* most MAX_ROUTING_RETRIES + 1 times and the validator at most
\* MAX_QUALITY_RETRIES + 1 times in one request.
C3_CountersWithinCeilings ==
    /\ st.retry_count <= MAX_RETRIES_DEFAULT
    /\ st.hallucination_check_count <= MAX_HALLUCINATION_CHECKS
    /\ calls.route <= MAX_RETRIES_DEFAULT + 1
    /\ calls.validator <= MAX_HALLUCINATION_CHECKS + 1

C3_Witness ==
    /\ pc = "done"
    /\ calls.route = MAX_RETRIES_DEFAULT + 1
    /\ st.retry_count = MAX_RETRIES_DEFAULT
    /\ st.hallucination_check_count = 1

MaxStagesPerRun ==
    1 + 2 * (MAX_RETRIES_DEFAULT + 1) + MAX_RETRIES_DEFAULT
      + 3 * MAX_HALLUCINATION_CHECKS

\* C5: when the quality gate rejects the first payload of a request and the
\* validator would accept the payload of the next execution, the response
\* carries the second payload and the quality-check counter ends at 2, for
\* every routing history (a low-confidence routing retry included).
C5_RegenerationReturnsSecondPayload ==
    (/\ UnaryDone
     /\ calls.firstRejected
     /\ PlanScore(2) >= HALLUCINATION_THRESHOLD
     /\ ~calls.otherTool
     /\ ~calls.toolRaised
     /\ calls.fault = "none"
     /\ st.confidence <= 100)
    => /\ response.result = [tool |-> "activity_generator", n |-> 2]
       /\ st.hallucination_check_count = 2

\* C6: a failed tool execution is kept in the pipeline state and the graph
\* goes on; the quality gate then calls no validator, no follow-up runs, no
\* assistant message is appended, and the response has error set and an empty
\* result.  In every response, error set implies an empty result.
C6_ToolFailureCaptured ==
    [][/\ (pc = "execute_tool" /\ st'.error # None) => pc' = "validate_output"
       /\ (pc = "check_hallucination" /\ st.error # None) =>
              (calls'.validator = calls.validator /\ pc' = "finalize")
       /\ (pc = "finalize" /\ st.error # None) =>
              /\ messages' = messages
              /\ contexts' = contexts
              /\ calls.followup = 0
              /\ req.mode = "unary" =>
                    (response'.error # None /\ response'.result = NoResult)
       /\ (response'.returned /\ response'.error # None) =>
              response'.result = NoResult]_vars

C6_Witness ==
    /\ UnaryDone
    /\ st.error = "ToolRaised"
    /\ st.selected_tool = "activity_generator"
    /\ calls.validator = 1
    /\ response.error = "ToolRaised"

\* C7: a streaming run yields finitely many node events and then exactly one
\* terminal event, final or error; nothing is yielded after it.
C7_OneTerminalEvent ==
    /\ (pc # "done") => events.terminals = <<>>
    /\ StreamDone =>
          /\ Len(events.terminals) = 1
          /\ events.terminals[1] \in {"final", "error"}
    /\ ~events.late
    /\ events.nodes <= MaxStagesPerRun
    /\ (req.mode = "unary") => (events.nodes = 0 /\ events.terminals = <<>>)

C7_Witness ==
    /\ StreamDone
    /\ events.terminals = <<"error">>
    /\ events.nodes = 12
    /\ calls.validator = MAX_HALLUCINATION_CHECKS
    /\ calls.fault = "write"

UserRow == [sid |-> req.session_id, role |-> "user", content |-> req.query,
            req |-> req.no]

AssistantRow == [sid |-> req.session_id, role |-> "assistant",
                 content |-> "Generated activity", req |-> req.no]

\* C8: with a working store, requests only append to the durable store; the
\* user message of a request is in the store before its Route stage starts,
\* and when process() returns without error the store holds the request's
\* user message followed by its assistant message, after all earlier rows.
C8_MessagesPersistedInOrder ==
    [][/\ Running =>
              /\ Len(messages) <= Len(messages')
              /\ SubSeq(messages', 1, Len(messages)) = messages
       /\ (pc = "understand_query" /\ pc' = "select_tool") =>
              messages' = Append(messages, UserRow)
       /\ (pc = "finalize" /\ pc' = "done" /\ req.mode = "unary"
           /\ calls'.fault = "none") =>
              LET new == SubSeq(messages', req.startLen + 1, Len(messages'))
              IN /\ Len(new) >= 1
                 /\ new[1] = UserRow
                 /\ response'.error = None => new = <<UserRow, AssistantRow>>]_vars

C8_Witness ==
    /\ UnaryDone
    /\ req.no = 2
    /\ response.error = None
    /\ SelectSeq2(messages, req.session_id)
         = <<[UserRow EXCEPT !.req = 1], [AssistantRow EXCEPT !.req = 1],
             UserRow, AssistantRow>>

\* C9: when a durable-store write fails, the write is dropped and the request
\* still goes through Route and returns without a storage error.
C9_WriteFailureDropped ==
    (UnaryDone /\ calls.fault = "write") =>
        /\ calls.route > 0
        /\ response.error # "StorageError"

\* C10: when a durable-store read fails during hydration, the request goes on
\* with no prior context and returns a normal response, and no session with
\* stored messages is left in the hot cache with an empty message list.
C10_ReadFailureDegrades ==
    /\ (UnaryDone /\ calls.fault = "read") =>
          /\ calls.route > 0
          /\ response.error = None
    /\ (pc \in {"idle", "done"}) =>
          \A i \in 1..Len(contexts) :
              contexts[i].sid \in conversations => contexts[i].msgs # <<>>

\* messages of the running request with the given role, in the durable store
\* and in the cached session
StoredWithRole(role) ==
    {i \in 1..Len(NewRows) :
        NewRows[i].sid = req.session_id /\ NewRows[i].role = role}

CachedWithRole(role) ==
    IF CacheHas(contexts, req.session_id)
    THEN LET m == CacheMsgs(contexts, req.session_id)
         IN {j \in 1..Len(m) : m[j].req = req.no /\ m[j].role = role}
    ELSE {}

\* C11: when the crisis handler is the selected tool and returned a payload,
\* the follow-up stage runs the activity generator once and the result of the
\* response carries its payload under follow_up; for any other selected tool
\* no follow-up runs and the result has no follow_up.
C11_FollowUpAttached ==
    (UnaryDone /\ response.error = None) =>
        IF st.selected_tool = "crisis_handler"
        THEN calls.followup = 1 /\ "follow_up" \in DOMAIN response.result
        ELSE calls.followup = 0 /\ "follow_up" \notin DOMAIN response.result

\* C12: a successful crisis-handler request with a follow-up leaves two
\* assistant messages of that request in its session: one for the
\* intervention and one for the follow-up activity.
C12_TwoAssistantMessages ==
    (/\ UnaryDone
     /\ response.error = None
     /\ st.selected_tool = "crisis_handler"
     /\ calls.followup = 1)
    => \/ Cardinality(StoredWithRole("assistant")) = 2
       \/ Cardinality(CachedWithRole("assistant")) = 2

\* the Load-context stage of the running request returned
Loaded == pc = "understand_query" /\ pc' = "select_tool"

UserMsg == Msg("user", req.query, req.no)

\* the cached message list of the request's session when the summarizer is
\* entered: what was cached before the request plus the current utterance
BeforeSummary == Append(CacheMsgs(contexts, req.session_id), UserMsg)

\* the summarizer runs in this step
Summarizing ==
    /\ Loaded
    /\ CacheHas(contexts, req.session_id)
    /\ Len(BeforeSummary) > SUMMARIZATION_THRESHOLD

\* C13: when the summarizer runs on a session, then on return, whether the
\* model call succeeded or failed, the session's in-memory list has at most
\* SUMMARIZE_KEEP_RECENT + 1 messages, its last SUMMARIZE_KEEP_RECENT entries
\* are the most recent messages in their order, and only the first entry can
\* be a system-role summary; the request is routed with that list.
C13_SummarizerBoundsSession ==
    [][Summarizing =>
          LET after == CacheMsgs(contexts', req.session_id)
          IN /\ Len(after) <= SUMMARIZATION_KEEP_RECENT + 1
             /\ Len(after) >= SUMMARIZATION_KEEP_RECENT
             /\ LastN(after, SUMMARIZATION_KEEP_RECENT)
                  = LastN(BeforeSummary, SUMMARIZATION_KEEP_RECENT)
             /\ \A j \in 2..Len(after) : after[j].role # "system"
             /\ Len(after) = SUMMARIZATION_KEEP_RECENT + 1
                  => after[1].role = "system"
             /\ st'.messages = after]_vars

C13_Witness ==
    /\ pc = "select_tool"
    /\ CacheHas(contexts, req.session_id)
    /\ Len(CacheMsgs(contexts, req.session_id)) = SUMMARIZATION_KEEP_RECENT + 1
    /\ CacheMsgs(contexts, req.session_id)[1].role = "system"
    /\ Len(SelectSeq2(messages, req.session_id)) = SUMMARIZATION_THRESHOLD + 2

\* C14: summarization changes only the in-memory session: after a step in
\* which the summarizer ran, on its success or its failure path, the durable
\* store holds every earlier row of every session in the same order, followed
\* by the user row the request wrote before the summarizer was entered.
C14_SummarizerLeavesStore ==
    [][Summarizing =>
          /\ messages' = Append(messages, UserRow)
          /\ conversations' = conversations \cup {req.session_id}]_vars

C14_Witness ==
    /\ pc = "select_tool"
    /\ CacheHas(contexts, req.session_id)
    /\ Len(CacheMsgs(contexts, req.session_id)) = SUMMARIZATION_KEEP_RECENT
    /\ Len(SelectSeq2(messages, req.session_id)) = SUMMARIZATION_THRESHOLD + 1

\* C17: when a request arrives for a session that is absent from the hot
\* cache and present in the durable store, the request is routed with the
\* most recent stored messages of the session in chronological order followed
\* by the current utterance, limited to CONTEXT_WINDOW entries.
C17_HydratedRoutingContext ==
    [][(/\ Loaded
        /\ ~CacheHas(contexts, req.session_id)
        /\ req.session_id \in conversations) =>
          st'.messages =
              LastN(Append(AsCtxMsgs(SelectSeq2(messages, req.session_id)), UserMsg),
                    MAX_CONTEXT_MESSAGES)]_vars

C17_Witness ==
    /\ pc = "select_tool"
    /\ CacheHas(contexts, req.session_id)
    /\ Len(CacheMsgs(contexts, req.session_id)) = MAX_CONTEXT_MESSAGES + 1
    /\ Len(st.messages) = MAX_CONTEXT_MESSAGES
    /\ st.messages[MAX_CONTEXT_MESSAGES] = UserMsg
    /\ st.messages[MAX_CONTEXT_MESSAGES - 1].role = "assistant"
    /\ st.messages[MAX_CONTEXT_MESSAGES - 1].req = req.no - 1

\* C15: the hot cache never holds more than SESSION_CACHE_MAX sessions, and
\* never the same session twice; a request for a session that is not cached,
\* arriving when the cache is full, drops the least recently used session,
\* keeps every other one as it was and makes the new session the most
\* recently used.
C15_CacheBoundedLRU ==
    /\ [](/\ Len(contexts) <= SESSION_CACHE_MAX
          /\ Cardinality({contexts[i].sid : i \in 1..Len(contexts)})
               = Len(contexts))
    /\ [][(/\ pc = "understand_query"
            /\ pc' # pc
            /\ ~CacheHas(contexts, req.session_id)
            /\ Len(contexts) = SESSION_CACHE_MAX) =>
              /\ Len(contexts') = SESSION_CACHE_MAX
              /\ SubSeq(contexts', 1, SESSION_CACHE_MAX - 1) = Tail(contexts)
              /\ contexts'[SESSION_CACHE_MAX].sid = req.session_id]_vars

C15_Witness ==
    /\ pc = "select_tool"
    /\ Len(contexts) = SESSION_CACHE_MAX
    /\ contexts[SESSION_CACHE_MAX].sid = "s2"
    /\ contexts[SESSION_CACHE_MAX - 1].sid = "s1"
    /\ "s1" \in conversations
    /\ apiResult = None

\* C16: clear_context(s) returns true exactly when s was cached; afterwards
\* get_context(s) finds nothing, every other cached session is what and where
\* it was, and the durable store, the rows of s included, is unchanged.
C16_ClearContextCacheOnly ==
    [][\A sid \in Sessions :
          ClearContext(sid) =>
              /\ (apiResult' = "True") <=> CacheHas(contexts, sid)
              /\ apiResult' \in {"True", "False"}
              /\ GetContextResult(contexts', sid) = None
              /\ contexts' = SelectSeq(contexts, LAMBDA e : e.sid # sid)
              /\ messages' = messages
              /\ conversations' = conversations
              /\ updated_at' = updated_at]_vars

C16_Witness ==
    /\ pc = "idle"
    /\ apiResult = "True"
    /\ ~CacheHas(contexts, "s1")
    /\ CacheHas(contexts, "s2")
    /\ "s1" \in conversations
    /\ Len(SelectSeq2(messages, "s1")) = 2

\* C18: delete_old_sessions(days) removes exactly the sessions whose
\* updated_at is older than the cutoff, with all of their messages; every
\* other session and message stays as it was, in the same order; no message
\* is left without a session; and a second run at the same time finds
\* nothing to remove.
C18_SweepExactAndIdempotent ==
    [][\A days \in RetentionDays :
          DeleteOldSessions(days) =>
              LET gone == {sid \in conversations : updated_at[sid] < now - days}
              IN /\ conversations' = conversations \ gone
                 /\ messages' = SelectSeq(messages, LAMBDA r : r.sid \notin gone)
                 /\ \A sid \in conversations' : updated_at'[sid] = updated_at[sid]
                 /\ \A i \in 1..Len(messages') : messages'[i].sid \in conversations'
                 /\ {sid \in conversations' : updated_at'[sid] < now' - days} = {}
                 /\ contexts' = contexts]_vars

C18_Witness ==
    /\ apiResult = "1"
    /\ conversations = {"s2"}
    /\ Len(messages) = 2
    /\ updated_at["s2"] = now - 1
    /\ now = MaxClock

\* C19: an utterance of 1 to 1000 characters is accepted and processed; an
\* empty one and one of 1001 characters are rejected before anything is
\* processed: no session is created, the hot cache is not touched and no
\* message is appended to the durable store.
C19_InputLengthBoundary ==
    [][\A sid \in Sessions, q \in InputQueries, mode \in Modes :
          Submit(sid, q, mode) =>
              IF Len(q) >= 1 /\ Len(q) <= TextLimit
              THEN pc' = "understand_query" /\ req'.query = q
              ELSE /\ apiResult' = "ValidationError"
                   /\ UNCHANGED <<conversations, messages, contexts, pc, req>>]_vars

\* C20: in every successful response of process() to an utterance whose
\* detected language is not English, whichever tool produced the payload,
\* each translatable field was returned translated to that language, or a
\* translation failure was logged for it and its English text returned.
C20_LanguageRoundTrip ==
    (/\ UnaryDone
     /\ response.error = None
     /\ DetectLanguage(req.query) # "en")
    => /\ calls.translated \cup calls.failed = TranslatableFields
       /\ "text" \in DOMAIN response.result
       /\ \A f \in TranslatableFields :
             response.result.text[f]
                 = IF f \in calls.failed THEN "en" ELSE DetectLanguage(req.query)

\* the quality gate called the validator in this step
GateChecked ==
    pc = "check_hallucination" /\ calls'.validator = calls.validator + 1

\* C21: the quality gate accepts a payload only when its score is at least
\* QUALITY_MIN and the validator's verdict is accept; a payload whose score
\* is at least QUALITY_MIN but whose verdict is redo is sent for regeneration
\* while quality attempts remain.
C21_GateNeedsAcceptVerdict ==
    [][GateChecked =>
          LET attemptsLeft ==
                  st'.hallucination_check_count < MAX_HALLUCINATION_CHECKS
              passes == /\ st'.hallucination_score >= HALLUCINATION_THRESHOLD
                        /\ st'.validation_message = "Accept"
          IN /\ (attemptsLeft /\ ~passes) => pc' = "retry"
             /\ (pc' # "retry") => (passes \/ ~attemptsLeft)]_vars

C23_ThresholdConfidenceAccepted ==
    [][(pc = "check_confidence" /\ st.confidence = CONFIDENCE_MIN) =>
          pc' = "execute_tool"]_vars


\* C25: whenever Route returns a confidence of at least CONFIDENCE_MIN on an
\* attempt the ceiling permits (the first or one of the MAX_ROUTING_RETRIES
\* retries), the engine advances to Execute with the selected tool; it ends
\* the run as "cannot route" only when the last permitted attempt is still
\* below CONFIDENCE_MIN.
C25_ConfidenceGate ==
    [][pc = "check_confidence" =>
          /\ (/\ st.confidence >= CONFIDENCE_MIN
              /\ calls.route <= MAX_RETRIES_DEFAULT + 1) =>
                 /\ pc' = "execute_tool"
                 /\ st'.selected_tool = st.selected_tool
          /\ pc' = "finalize" =>
                 /\ st.confidence < CONFIDENCE_MIN
                 /\ calls.route = MAX_RETRIES_DEFAULT + 1]_vars

\* the retry node is entered on the redo edge of the quality gate
RedoPending ==
    /\ pc = "retry"
    /\ st.needs_hallucination_recheck
    /\ st.hallucination_check_count < MAX_HALLUCINATION_CHECKS

\* C26: on a quality-gate redo with quality attempts remaining, the engine
\* loops back to Execute and re-runs the tool already selected: Route is not
\* invoked again, the selected tool is unchanged and the routing retry
\* counter is not incremented.
C26_RedoReexecutesSelectedTool ==
    /\ [][RedoPending =>
              /\ pc' = "execute_tool"
              /\ st'.selected_tool = st.selected_tool
              /\ st'.retry_count = st.retry_count]_vars
    /\ [][(pc = "select_tool" /\ st.tool_result # NoResult) =>
              calls'.route = calls.route]_vars

\* C27: when the Route stage's model call fails or its reply cannot be
\* parsed, the stage yields the default tool activity_generator with
\* confidence 0.5 instead of raising, and a request whose Route calls all
\* fail is recovered: the default tool is executed and its payload returned.
C27_RouteFallbackRecovers ==
    (/\ UnaryDone
     /\ calls.route > 0
     /\ calls.fallbackOnly
     /\ calls.fault = "none"
     /\ ~calls.toolRaised)
    => /\ calls.exec >= 1
       /\ response.error = None
       /\ response.tool_used = "activity_generator"
       /\ response.result # NoResult

\* C28: in every response with a non-empty result, tool_used names the tool
\* whose execution produced that result, and the result is the payload of
\* the most recent Execute that followed the most recent Route: when a later
\* routing decision ends the run, no payload of an earlier loop iteration is
\* in the pipeline state to be returned.
C28_ResultOfLastRouting ==
    /\ []((UnaryDone /\ response.result # NoResult) =>
              response.tool_used = response.result.tool)
    /\ []((StreamDone /\ events.data.result # NoResult) =>
              events.data.tool_used = events.data.result.tool)
    /\ [][(pc = "check_confidence" /\ pc' = "finalize") =>
              st'.tool_result = NoResult]_vars

\* C29: unary and streaming modes agree: from the same final pipeline state
\* and the same outcomes of the model and the store, the final event of
\* process_streaming() carries the tool_used, result, confidence and error
\* of the record process() returns, and both modes append the same messages
\* to the session and to the durable store.
C29_ModesAgree ==
    /\ [](pc = "finalize" =>
            \A failed \in SUBSET TranslatableFields :
                LET u == UnaryRecord(st, req.query, 0, failed)
                    d == StreamData(st)
                IN /\ d.tool_used = u.tool_used
                   /\ d.result = u.result
                   /\ d.confidence = u.confidence
                   /\ d.error = u.error)
    /\ [][(pc = "finalize" /\ pc' = "done") =>
              LET appends == st.tool_result # NoResult
                  written == appends /\ calls'.fault = "none"
              IN /\ contexts' = IF appends
                                THEN AddAssistant(contexts, req.session_id,
                                                  "Generated activity", req.no)
                                ELSE contexts
                 /\ messages' = IF written THEN Append(messages, AssistantRow)
                                ELSE messages]_vars

\* the documents search_similar computes a similarity for, as a set
Eligible(q, f) ==
    {i \in 1..Len(documents) :
        /\ MatchesFilters(documents[i], f)
        /\ NormPositive(q)
        /\ NormPositive(documents[i].embedding)}

\* document i ranks before document j: greater similarity, or the same
\* similarity and the smaller id
RanksBefore(q, i, j) ==
    \/ CosGreater(q, documents[i].embedding, documents[j].embedding)
    \/ /\ ~CosGreater(q, documents[j].embedding, documents[i].embedding)
       /\ i < j

\* C24: search_similar returns min(k, number of eligible documents)
\* documents, the best ranked ones, ordered by descending cosine similarity
\* to the query with documents of equal similarity in ascending id order; an
\* empty corpus, or one without an eligible document, yields the canned
\* "no relevant information" answer and no exception.
C24_TopKOrdered ==
    [][\A q \in QueryEmbeddings, k \in 0..MaxK, f \in SearchFilters :
          (RagQuery(q, k, f) /\ answer'.kind # "raised") =>
              LET got == answer'.sources
                  eligible == Eligible(q, f)
                  want == IF k < Cardinality(eligible)
                          THEN k ELSE Cardinality(eligible)
              IN /\ Len(got) = want
                 /\ \A n \in 1..Len(got) : got[n] \in eligible
                 /\ \A n \in 1..(Len(got) - 1) :
                        RanksBefore(q, got[n], got[n + 1])
                 /\ \A n \in 1..Len(got) : \A j \in eligible :
                        (\A m \in 1..Len(got) : got[m] # j) =>
                            RanksBefore(q, got[n], j)
                 /\ (eligible = {}) => answer'.kind = "no relevant information"
                 /\ (answer'.kind = "no relevant information") => got = <<>>]_vars

C24_Witness ==
    /\ answer.kind = "generated"
    /\ Len(documents) = MaxDocs
    /\ documents[MaxDocs - 1].embedding = <<1, 1>>
    /\ documents[MaxDocs].embedding = <<1, 0>>
    /\ \A i \in 1..Len(documents) : Len(documents[i].source) = 1
    /\ answer.query = <<1, 0>>
    /\ answer.filters = None
    /\ answer.top_k = 1
    /\ answer.sources = <<MaxDocs>>

\* every concurrent request has passed Load context
AllLoaded == tasks # NoTasks /\ \A t \in Tasks : tasks[t].pc = "loaded"

\* positions of the utterance of request t in the cached list of its session
UtteranceAt(t) ==
    LET m == CacheMsgs(contexts, tasks[t].sid)
    IN {i \in 1..Len(m) : m[i] = Msg("user", "q1", t)}

\* C30: concurrent requests on the same session lose no in-memory message:
\* once all of them have passed Load context, the utterance each appended is
\* in the session's in-memory list, once, and the utterances are in the
\* order in which they were appended.
C30_NoLostMessages ==
    AllLoaded =>
        \A t \in Tasks :
            /\ Cardinality(UtteranceAt(t)) = 1
            /\ \A u \in Tasks :
                  (tasks[u].sid = tasks[t].sid /\ tasks[t].stamp < tasks[u].stamp) =>
                      \A i \in UtteranceAt(t), j \in UtteranceAt(u) : i < j

====
